---------------------------- MODULE Spec2Model ----------------------------
(***************************************************************************)
(* The ingestion run of src/streamlit_app.py: person discovery (Step 1),   *)
(* extraction with the current-person cursor (Step 2), combination and     *)
(* month ordering (Step 3), the month tabs and the yearly comparison.      *)
(*                                                                         *)
(* Python strings are sequences of one-character strings, so that strip,   *)
(* lower, substring tests, isdigit and ordering are computed, not assumed. *)
(***************************************************************************)
EXTENDS Integers, Sequences, FiniteSets, TLC

(***************************************************************************)
(* Bounds of the model                                                     *)
(***************************************************************************)
MaxRows == 3
MaxFiles == 2

(***************************************************************************)
(* Python str primitives                                                   *)
(***************************************************************************)
\* the characters used, in ascending code point order
Alphabet ==
  <<" ", "-", ".", "/", "0", "1", "2", "3", "4", "5", "6", "7", "8", "9",
    "A", "B", "C", "D", "E", "F", "G", "H", "I", "J", "K", "L", "M", "N",
    "O", "P", "Q", "R", "S", "T", "U", "V", "W", "X", "Y", "Z",
    "a", "b", "c", "d", "e", "f", "g", "h", "i", "j", "k", "l", "m", "n",
    "o", "p", "q", "r", "s", "t", "u", "v", "w", "x", "y", "z">>

UpperChars ==
  <<"A", "B", "C", "D", "E", "F", "G", "H", "I", "J", "K", "L", "M", "N",
    "O", "P", "Q", "R", "S", "T", "U", "V", "W", "X", "Y", "Z">>

LowerChars ==
  <<"a", "b", "c", "d", "e", "f", "g", "h", "i", "j", "k", "l", "m", "n",
    "o", "p", "q", "r", "s", "t", "u", "v", "w", "x", "y", "z">>

Digits == <<"0", "1", "2", "3", "4", "5", "6", "7", "8", "9">>

Chars == {Alphabet[i] : i \in 1..Len(Alphabet)}

\* the rank of each character in code point order
OrdOf == [c \in Chars |-> CHOOSE i \in 1..Len(Alphabet) : Alphabet[i] = c]

Ord(c) == OrdOf[c]

DigitChars == {Digits[i] : i \in 1..Len(Digits)}

IsDigitChar(c) == c \in DigitChars

DigitValOf == [c \in DigitChars |-> (CHOOSE i \in 1..Len(Digits) : Digits[i] = c) - 1]

DigitVal(c) == DigitValOf[c]

\* the lower-case form of each character
LowerOf ==
  [c \in Chars |->
     IF \E i \in 1..Len(UpperChars) : UpperChars[i] = c
     THEN LowerChars[CHOOSE i \in 1..Len(UpperChars) : UpperChars[i] = c]
     ELSE c]

LowerChar(c) == LowerOf[c]

\* str.lower()
Lower(s) == [i \in 1..Len(s) |-> LowerChar(s[i])]

\* str.strip(): leading and trailing whitespace removed
Strip(s) ==
  LET keep == {i \in 1..Len(s) : s[i] # " "}
  IN IF keep = {} THEN <<>>
     ELSE LET lo == CHOOSE i \in keep : \A j \in keep : i <= j
              hi == CHOOSE i \in keep : \A j \in keep : j <= i
          IN SubSeq(s, lo, hi)

\* sub in s
Contains(s, sub) ==
  \E i \in 1..(Len(s) - Len(sub) + 1) : SubSeq(s, i, i + Len(sub) - 1) = sub

\* s.startswith(pre)
StartsWith(s, pre) == Len(pre) <= Len(s) /\ SubSeq(s, 1, Len(pre)) = pre

IsNotSpace(c) == c # " "

\* s.replace(" ", "")
RemoveSpaces(s) == SelectSeq(s, IsNotSpace)

\* s.isdigit(): non-empty and every character a digit
IsDigit(s) == Len(s) > 0 /\ \A i \in 1..Len(s) : IsDigitChar(s[i])

\* s < t in Python's ordering of str (by code point, a prefix first)
StrLess(s, t) ==
  \E k \in 1..(Len(t)) :
     /\ \A j \in 1..(k - 1) : j <= Len(s) /\ s[j] = t[j]
     /\ k - 1 <= Len(s)
     /\ (k > Len(s) \/ Ord(s[k]) < Ord(t[k]))

RECURSIVE Sorted(_)
\* sorted(list(S)) for a set S of str
Sorted(S) ==
  IF S = {} THEN <<>>
  ELSE LET m == CHOOSE x \in S : \A y \in S \ {x} : StrLess(x, y)
       IN <<m>> \o Sorted(S \ {m})

RECURSIVE DecimalValue(_)
\* the number a non-empty string of digits denotes
DecimalValue(s) ==
  IF Len(s) = 0 THEN 0
  ELSE 10 * DecimalValue(SubSeq(s, 1, Len(s) - 1)) + DigitVal(s[Len(s)])

RECURSIVE DecimalDigits(_)
\* the digits of a natural number
DecimalDigits(n) ==
  IF n < 10 THEN <<Digits[n + 1]>>
  ELSE DecimalDigits(n \div 10) \o <<Digits[(n % 10) + 1]>>

\* Python's None, and the ValueError idxmax raises on an empty series; both
\* are distinct from every str
None == <<"None">>
ValueError == <<"ValueError">>

(***************************************************************************)
(* Cells of a sheet                                                        *)
(***************************************************************************)
NaN == [t |-> "nan", s |-> <<>>, n |-> 0]
StrCell(s) == [t |-> "str", s |-> s, n |-> 0]
IntCell(n) == [t |-> "int", s |-> <<>>, n |-> n]

\* str(cell): a missing cell prints as "nan"
PyStr(cell) ==
  CASE cell.t = "nan" -> <<"n", "a", "n">>
    [] cell.t = "str" -> cell.s
    [] cell.t = "int" ->
         IF cell.n < 0 THEN <<"-">> \o DecimalDigits(0 - cell.n)
         ELSE DecimalDigits(cell.n)

\* pd.notna(cell)
NotNa(cell) == cell.t # "nan"

(***************************************************************************)
(* Static configuration                                                    *)
(***************************************************************************)
known_tasks ==
  { <<"P", "r", "e", "p", "a", "r", "a", "t", "i", "o", "n", " ", "a", "n", "d", " ", "S", "e", "t", "u", "p">>,
    <<"M", "o", "n", "i", "t", "o", "r", " ", "W", "e", "b", "I", "n", "s", "p", "e", "c", "t">>,
    <<"Q", "u", "a", "l", "i", "t", "y">>,
    <<"Q", "u", "a", "l", "i", "t", "y", " ", "1">>,
    <<"Q", "u", "a", "l", "i", "t", "y", " ", "2">>,
    <<"A", "u", "t", "h", "e", "n", "t", "i", "c", "a", "t", "i", "o", "n", " ", "a", "n", "d", " ", "S", "e", "s", "s", "i", "o", "n">>,
    <<"A", "c", "c", "e", "s", "s", " ", "C", "o", "n", "t", "r", "o", "l">>,
    <<"I", "n", "p", "u", "t", " ", "V", "a", "l", "i", "d", "a", "t", "i", "o", "n">>,
    <<"B", "u", "s", "i", "n", "e", "s", "s", " ", "L", "o", "g", "i", "c">>,
    <<"W", "o", "r", "k">>,
    <<"R", "e", "v", "i", "e", "w">>,
    <<"R", "e", "m", "e", "d", "i", "a", "t", "i", "o", "n", " ", "2">>,
    <<"R", "e", "m", "e", "d", "i", "a", "t", "i", "o", "n", " ", "1">>,
    <<"R", "e", "m", "e", "d", "i", "a", "t", "i", "o", "n">> }

\* zero-based column indices, in the dict's insertion order
portals ==
  << [name |-> "AMS PORTAL",  col_task |-> 0, col_value |-> 1],
     [name |-> "EMEA PORTAL", col_task |-> 3, col_value |-> 4],
     [name |-> "APAC PORTAL", col_task |-> 6, col_value |-> 7],
     [name |-> "SGP PORTAL",  col_task |-> 9, col_value |-> 10] >>

(***************************************************************************)
(* Classification of a label (Step 1 filter)                               *)
(***************************************************************************)
\* the exclusions of the Step 1 filter other than the known-task test:
\* empty, "row labels", contains "portal", starts with "total",
\* contains "grand total", all digits once spaces are removed
IsStructuralNoise(value) ==
  LET lower == Lower(value)
  IN \/ value = <<>>
     \/ lower = <<"r", "o", "w", " ", "l", "a", "b", "e", "l", "s">>
     \/ Contains(lower, <<"p", "o", "r", "t", "a", "l">>)
     \/ StartsWith(lower, <<"t", "o", "t", "a", "l">>)
     \/ Contains(lower, <<"g", "r", "a", "n", "d", " ", "t", "o", "t", "a", "l">>)
     \/ IsDigit(RemoveSpaces(value))

\* the whole condition of the Step 1 `if`
IsPersonCandidate(value) ==
  /\ ~IsStructuralNoise(value)
  /\ value \notin known_tasks

(***************************************************************************)
(* Data frames                                                             *)
(***************************************************************************)
\* A frame is [ncols, rows]; a row is a sequence of ncols cells.
\* df[[col_task, col_value]] raises KeyError when a column is absent.
HasColumns(df, portal) == portal.col_task < df.ncols /\ portal.col_value < df.ncols

Project(df, portal) ==
  [i \in 1..Len(df.rows) |->
     <<df.rows[i][portal.col_task + 1], df.rows[i][portal.col_value + 1]>>]

NotAllNa(row) == NotNa(row[1]) \/ NotNa(row[2])

\* df[[col_task, col_value]].dropna(how="all")
PortalDf(df, portal) == SelectSeq(Project(df, portal), NotAllNa)


\* pd.to_numeric(cell, errors="coerce"): a number stays, a string that
\* reads as an integer literal becomes that number, anything else is NaN
ToNumeric(cell) ==
  CASE cell.t = "int" -> cell
    [] cell.t = "nan" -> NaN
    [] cell.t = "str" ->
         LET body == IF Len(cell.s) > 0 /\ cell.s[1] = "-"
                     THEN SubSeq(cell.s, 2, Len(cell.s)) ELSE cell.s
             sign == IF Len(cell.s) > 0 /\ cell.s[1] = "-" THEN 0 - 1 ELSE 1
         IN IF IsDigit(body) THEN IntCell(sign * DecimalValue(body)) ELSE NaN

\* FillNa0, were the fill left out
FillNa0_Identity(cell) == cell

\* .fillna(0)
FillNa0(cell) == IF cell.t = "nan" THEN IntCell(0) ELSE cell

\* df_records["Completion"] = pd.to_numeric(..., errors="coerce").fillna(0)
CoerceCompletion(records) ==
  [i \in 1..Len(records) |->
     [records[i] EXCEPT !.Completion = FillNa0(ToNumeric(records[i].Completion))]]

\* os.path.splitext(file_name)[0]: the name up to its last dot, when that
\* dot is preceded by a character that is not a dot
SplitExtStem(file_name) ==
  LET dots == {i \in 1..Len(file_name) : file_name[i] = "."}
  IN IF dots = {} THEN file_name
     ELSE LET d == CHOOSE i \in dots : \A j \in dots : j <= i
          IN IF \E j \in 1..(d - 1) : file_name[j] # "." THEN SubSeq(file_name, 1, d - 1)
             ELSE file_name

(***************************************************************************)
(* Uploaded batches the model explores                                     *)
(***************************************************************************)
sAlice == <<"A", "l", "i", "c", "e">>
sBob == <<"B", "o", "b">>
sQuality == <<"Q", "u", "a", "l", "i", "t", "y">>
sWork == <<"W", "o", "r", "k">>
sTotal == <<"T", "o", "t", "a", "l">>

nameMarch2024 == <<"M", "a", "r", "c", "h", " ", "2", "0", "2", "4", ".", "x", "l", "s", "x">>
nameJanuary2025 == <<"J", "a", "n", "u", "a", "r", "y", " ", "2", "0", "2", "5", ".", "x", "l", "s", "x">>
nameInvalid == <<"I", "n", "v", "a", "l", "i", "d", "N", "a", "m", "e", ".", "x", "l", "s", "x">>
namemarch2024 == <<"m", "a", "r", "c", "h", " ", "2", "0", "2", "4", ".", "x", "l", "s", "x">>

FileNames == {nameMarch2024, nameJanuary2025, nameInvalid, namemarch2024}

\* label/value pairs of the first section of a two-section sheet
RowsAMS ==
  { <<NaN, NaN>>,
    <<StrCell(sAlice), NaN>>,
    <<StrCell(sBob), NaN>>,
    <<StrCell(sQuality), IntCell(5)>>,
    <<StrCell(sQuality), NaN>>,
    <<NaN, IntCell(5)>>,
    <<StrCell(sTotal), IntCell(9)>> }

\* label/value pairs of its second section
RowsEMEA ==
  { <<NaN, NaN>>,
    <<StrCell(sWork), IntCell(2)>> }

\* rows of a sheet five columns wide, sections at columns (0,1) and (3,4);
\* a row holds cells of one section and is blank in the other
WideRows ==
  {<<a[1], a[2], NaN, NaN, NaN>> : a \in RowsAMS}
  \cup {<<NaN, NaN, NaN, e[1], e[2]>> : e \in RowsEMEA}

SeqsUpTo(S, n) == UNION {[1..k -> S] : k \in 0..n}

WideFrames == {[ncols |-> 5, rows |-> r] : r \in SeqsUpTo(WideRows, MaxRows)}

\* labels of every class the filters distinguish (integer labels only in
\* a column that also holds text, where pandas keeps them as Python ints)
LabelCells ==
  { NaN,
    StrCell(<<" ", " ">>),
    StrCell(<<"R", "o", "w", " ", "L", "a", "b", "e", "l", "s">>),
    StrCell(<<"A", "M", "S", " ", "P", "O", "R", "T", "A", "L">>),
    StrCell(<<"T", "o", "t", "a", "l", " ", "H", "o", "u", "r", "s">>),
    StrCell(<<"S", "u", "b", " ", "G", "r", "a", "n", "d", " ", "T", "o", "t", "a", "l">>),
    StrCell(<<"g", "r", "a", "n", "d", " ", "t", "o", "t", "a", "l">>),
    StrCell(<<"T", "O", "T", "A", "L">>),
    IntCell(12),
    StrCell(<<"1", " ", "2">>),
    StrCell(sBob),
    StrCell(<<" ", "B", "o", "b", " ">>),
    StrCell(<<"q", "u", "a", "l", "i", "t", "y">>),
    StrCell(<<"R", "e", "v", "i", "e", "w">>) }

ValueCells ==
  { NaN, IntCell(5), IntCell(0), IntCell(0 - 1),
    StrCell(<<"a", "b", "c">>), StrCell(<<"7">>), StrCell(<<"-", "3">>) }

\* a one-section sheet: a person row, a row of any label, a task row of any value
NarrowFrames ==
  { [ncols |-> 2,
     rows |-> << <<StrCell(sAlice), NaN>>, <<l, v>>, <<StrCell(sQuality), w>> >>] :
       l \in LabelCells, v \in {NaN, IntCell(5)}, w \in ValueCells }

\* small sheets for batches of several files
SmallFrames ==
  { [ncols |-> 2, rows |-> << <<StrCell(sAlice), NaN>>, <<StrCell(sQuality), IntCell(5)>> >>],
    [ncols |-> 2, rows |-> << <<StrCell(sBob), NaN>>, <<StrCell(sWork), IntCell(5)>> >>] }

File(n, d) == [name |-> n, df |-> d]

Batches ==
  {<<File(nameMarch2024, d)>> : d \in WideFrames \cup NarrowFrames}
  \cup UNION {[1..k -> {File(n, d) : n \in FileNames, d \in SmallFrames}] : k \in 1..MaxFiles}

(***************************************************************************)
(* State                                                                   *)
(***************************************************************************)
VARIABLES
  uploaded_files,        \* the batch: a sequence of [name, df]
  pc,                    \* position in the script
  fi,                    \* index of the current uploaded_file
  pi,                    \* index of the current portal
  ri,                    \* index of the current row of portal_df
  df,                    \* the frame read from the current file
  portal_df,             \* the projected section being scanned
  current_person,        \* the cursor
  all_persons_detected,  \* set built by Step 1
  all_persons_list,      \* sorted list frozen after Step 1
  all_records,           \* records of the current file
  all_data,              \* list of per-file record tables
  warnings,              \* what st.warning / st.error surfaced
  combined_df,           \* the combined table, sorted by Month_Order
  month_list,            \* the labels of the month tabs, in order
  ti,                    \* index of the current month tab
  tab_metrics,           \* per month tab: the df_month and the metrics shown
  selected_persons,      \* st.session_state.selected_persons
  monthly_data,          \* per month tab: the filtered table
  yearly                 \* the yearly comparison: its table and top performer

ingest == <<uploaded_files, pc, fi, pi, ri, df, portal_df, current_person,
            all_persons_detected, all_persons_list, all_records, all_data, warnings>>

ingest_but_pc == <<uploaded_files, fi, pi, ri, df, portal_df, current_person,
                   all_persons_detected, all_persons_list, all_records, all_data, warnings>>

view == <<combined_df, month_list, ti, tab_metrics, selected_persons, monthly_data, yearly>>

vars == <<ingest, view>>

NoFrame == [ncols |-> 0, rows |-> <<>>]

Range(f) == {f[i] : i \in DOMAIN f}

Warn(kind, file, portal, e) == [kind |-> kind, file |-> file, portal |-> portal, e |-> e]

NoYearly == [shown |-> FALSE, table |-> <<>>, top_performer_year |-> None]

Init ==
  /\ uploaded_files \in Batches
  /\ pc = "scan_read"
  /\ fi = 1
  /\ pi = 1
  /\ ri = 1
  /\ df = NoFrame
  /\ portal_df = <<>>
  /\ current_person = None
  /\ all_persons_detected = {}
  /\ all_persons_list = <<>>
  /\ all_records = <<>>
  /\ all_data = <<>>
  /\ warnings = {}
  /\ combined_df = <<>>
  /\ month_list = <<>>
  /\ ti = 1
  /\ tab_metrics = <<>>
  /\ selected_persons = None
  /\ monthly_data = <<>>
  /\ yearly = NoYearly

(***************************************************************************)
(* Step 1: capture all person names                                        *)
(***************************************************************************)
\* the labels of a section that the Step 1 filter accepts
PersonsOf(section) ==
  {v \in {Strip(PyStr(section[i][1])) : i \in 1..Len(section)} : IsPersonCandidate(v)}

\* ScanNextFile, were Step 1 to stop after the file it is on
ScanNextFile_Stop ==
  /\ fi' = fi + 1
  /\ pi' = 1
  /\ df' = NoFrame
  /\ pc' = "freeze"

\* leaving the current file of Step 1: the next file, or the end of the loop
ScanNextFile ==
  /\ fi' = fi + 1
  /\ pi' = 1
  /\ df' = NoFrame
  /\ pc' = IF fi < Len(uploaded_files) THEN "scan_read" ELSE "freeze"

\* pd.read_excel in Step 1: it returns the sheet, or raises and the file is
\* left with a warning
ScanRead ==
  /\ pc = "scan_read"
  /\ \/ /\ df' = uploaded_files[fi].df
        /\ pc' = "scan_portal"
        /\ UNCHANGED <<fi, pi, warnings>>
     \/ /\ warnings' = warnings \cup {Warn("scan_error", fi, 0, "read")}
        /\ ScanNextFile
  /\ UNCHANGED <<uploaded_files, ri, portal_df, current_person,
                 all_persons_detected, all_persons_list, all_records, all_data, view>>

\* one iteration of the portal loop of Step 1, with its row loop
ScanPortal ==
  /\ pc = "scan_portal"
  /\ IF ~HasColumns(df, portals[pi])
     THEN /\ warnings' = warnings \cup {Warn("scan_error", fi, pi, "KeyError")}
          /\ ScanNextFile
          /\ UNCHANGED all_persons_detected
     ELSE /\ all_persons_detected' =
               all_persons_detected \cup PersonsOf(PortalDf(df, portals[pi]))
          /\ IF pi < Len(portals)
             THEN /\ pi' = pi + 1
                  /\ UNCHANGED <<pc, fi, df>>
             ELSE ScanNextFile
          /\ UNCHANGED warnings
  /\ UNCHANGED <<uploaded_files, ri, portal_df, current_person,
                 all_persons_list, all_records, all_data, view>>

\* all_persons_list = sorted(list(all_persons_detected))
Freeze ==
  /\ pc = "freeze"
  /\ all_persons_list' = Sorted(all_persons_detected)
  /\ pc' = "proc_read"
  /\ fi' = 1
  /\ UNCHANGED <<uploaded_files, pi, ri, df, portal_df, current_person,
                 all_persons_detected, all_records, all_data, warnings, view>>

(***************************************************************************)
(* Step 2: process each file with the detected person list                 *)
(***************************************************************************)
\* a Python value is truthy: not None and not the empty str
Truthy(x) == x # None /\ x # <<>>

\* the first test of the row loop: `continue` on an empty label and on
\* "total" / "grand total" in any case
IsSkipped(cell_value) ==
  \/ cell_value = <<>>
  \/ Lower(cell_value) \in {<<"t", "o", "t", "a", "l">>,
                            <<"g", "r", "a", "n", "d", " ", "t", "o", "t", "a", "l">>}

\* CursorAfter, were the cursor only set while it is still None
CursorAfter_KeepFirst(cursor, cell_value, persons) ==
  IF IsSkipped(cell_value) THEN cursor
  ELSE IF cell_value \in Range(persons) /\ cursor = None THEN cell_value
  ELSE cursor

\* CursorAfter, were every label that is not a known task taken as a person
CursorAfter_AnyLabel(cursor, cell_value, persons) ==
  IF IsSkipped(cell_value) THEN cursor
  ELSE IF cell_value \notin known_tasks THEN cell_value
  ELSE cursor

\* the cursor after a row whose label is cell_value
CursorAfter(cursor, cell_value, persons) ==
  IF IsSkipped(cell_value) THEN cursor
  ELSE IF cell_value \in Range(persons) THEN cell_value
  ELSE cursor

\* Emits, were the label not tested against known_tasks
Emits_AnyLabel(cursor, cell_value, completion_value, persons) ==
  /\ ~IsSkipped(cell_value)
  /\ cell_value \notin Range(persons)
  /\ Truthy(cursor)
  /\ NotNa(completion_value)

\* Emits, were the value not tested with pd.notna
Emits_NoNotNa(cursor, cell_value, completion_value, persons) ==
  /\ ~IsSkipped(cell_value)
  /\ cell_value \notin Range(persons)
  /\ cell_value \in known_tasks
  /\ Truthy(cursor)

\* the row appends a record
Emits(cursor, cell_value, completion_value, persons) ==
  /\ ~IsSkipped(cell_value)
  /\ cell_value \notin Range(persons)
  /\ cell_value \in known_tasks
  /\ Truthy(cursor)
  /\ NotNa(completion_value)

\* leaving the current file of Step 2
ProcNextFile ==
  /\ fi' = fi + 1
  /\ pi' = 1
  /\ ri' = 1
  /\ df' = NoFrame
  /\ portal_df' = <<>>
  /\ pc' = IF fi < Len(uploaded_files) THEN "proc_read" ELSE "combine"

\* leaving the current portal of Step 2
ProcNextPortal ==
  /\ pi' = pi + 1
  /\ ri' = 1
  /\ pc' = IF pi < Len(portals) THEN "proc_portal" ELSE "proc_file_end"

\* pd.read_excel in Step 2: it returns the sheet, or raises and st.error
\* reports the file, whose records are never appended
ProcRead ==
  /\ pc = "proc_read"
  /\ \/ /\ df' = uploaded_files[fi].df
        /\ all_records' = <<>>
        /\ pi' = 1
        /\ pc' = "proc_portal"
        /\ UNCHANGED <<fi, ri, portal_df, warnings>>
     \/ /\ warnings' = warnings \cup {Warn("read_error", fi, 0, "read")}
        /\ ProcNextFile
        /\ UNCHANGED all_records
  /\ UNCHANGED <<uploaded_files, current_person, all_persons_detected,
                 all_persons_list, all_data, view>>

\* the head of the portal loop: project, drop blank rows, reset the cursor;
\* a missing column raises and the portal is skipped with a warning
ProcPortal ==
  /\ pc = "proc_portal"
  /\ IF ~HasColumns(df, portals[pi])
     THEN /\ warnings' = warnings \cup {Warn("portal_skipped", fi, pi, "KeyError")}
          /\ ProcNextPortal
          /\ UNCHANGED <<portal_df, current_person>>
     ELSE /\ portal_df' = PortalDf(df, portals[pi])
          /\ current_person' = None
          /\ IF PortalDf(df, portals[pi]) = <<>>
             THEN ProcNextPortal
             ELSE /\ pc' = "proc_row"
                  /\ ri' = 1
                  /\ UNCHANGED pi
          /\ UNCHANGED warnings
  /\ UNCHANGED <<uploaded_files, fi, df, all_persons_detected,
                 all_persons_list, all_records, all_data, view>>

\* one iteration of the row loop
ProcRow ==
  /\ pc = "proc_row"
  /\ LET row == portal_df[ri]
         cell_value == Strip(PyStr(row[1]))
         completion_value == row[2]
     IN /\ current_person' = CursorAfter(current_person, cell_value, all_persons_list)
        /\ all_records' =
             IF Emits(current_person, cell_value, completion_value, all_persons_list)
             THEN Append(all_records,
                         [Month_Year |-> SplitExtStem(uploaded_files[fi].name),
                          Portal |-> portals[pi].name,
                          Person |-> current_person,
                          Task |-> cell_value,
                          Completion |-> completion_value])
             ELSE all_records
  /\ IF ri < Len(portal_df)
     THEN /\ ri' = ri + 1
          /\ UNCHANGED <<pc, pi>>
     ELSE ProcNextPortal
  /\ UNCHANGED <<uploaded_files, fi, df, portal_df, all_persons_detected,
                 all_persons_list, all_data, warnings, view>>

\* after the portal loop: the file's table, coerced, joins all_data, or a
\* warning says the file held no valid data
ProcFileEnd ==
  /\ pc = "proc_file_end"
  /\ IF all_records # <<>>
     THEN /\ all_data' = Append(all_data, CoerceCompletion(all_records))
          /\ UNCHANGED warnings
     ELSE /\ warnings' = warnings \cup {Warn("no_valid_data", fi, 0, "")}
          /\ UNCHANGED all_data
  /\ ProcNextFile
  /\ UNCHANGED <<uploaded_files, current_person, all_persons_detected,
                 all_persons_list, all_records, view>>

(***************************************************************************)
(* Step 3: combine, order the months, show the tabs                        *)
(***************************************************************************)
Months ==
  << <<"j", "a", "n", "u", "a", "r", "y">>,
     <<"f", "e", "b", "r", "u", "a", "r", "y">>,
     <<"m", "a", "r", "c", "h">>,
     <<"a", "p", "r", "i", "l">>,
     <<"m", "a", "y">>,
     <<"j", "u", "n", "e">>,
     <<"j", "u", "l", "y">>,
     <<"a", "u", "g", "u", "s", "t">>,
     <<"s", "e", "p", "t", "e", "m", "b", "e", "r">>,
     <<"o", "c", "t", "o", "b", "e", "r">>,
     <<"n", "o", "v", "e", "m", "b", "e", "r">>,
     <<"d", "e", "c", "e", "m", "b", "e", "r">> >>

NoDate == [null |-> TRUE, key |-> 0]

\* the lower-cased text lm reads as month k, one or more spaces, four
\* digits of a year >= 1
ReadsAsMonth(lm, k) ==
  LET rest == SubSeq(lm, Len(Months[k]) + 1, Len(lm))
  IN /\ StartsWith(lm, Months[k])
     /\ Len(rest) >= 5
     /\ \A i \in 1..(Len(rest) - 4) : rest[i] = " "
     /\ IsDigit(SubSeq(rest, Len(rest) - 3, Len(rest)))
     /\ DecimalValue(SubSeq(rest, Len(rest) - 3, Len(rest))) >= 1

\* datetime.strptime(m, "%B %Y"), None when it raises; the date (first day
\* of the month) is kept as months since year 0
parse_month_year(m) ==
  LET lm == Lower(m)
      ks == {k \in 1..Len(Months) : ReadsAsMonth(lm, k)}
  IN IF ks # {}
     THEN [null |-> FALSE,
           key |-> 12 * DecimalValue(SubSeq(m, Len(m) - 3, Len(m)))
                   + ((CHOOSE k \in ks : TRUE) - 1)]
     ELSE NoDate

RECURSIVE Concat(_)
\* pd.concat(tables, ignore_index=True)
Concat(tables) ==
  IF tables = <<>> THEN <<>> ELSE Head(tables) \o Concat(Tail(tables))

\* Series.unique(): the distinct values in order of first appearance
FirstIndex(table, m) ==
  CHOOSE i \in 1..Len(table) :
    table[i].Month_Year = m /\ \A j \in 1..(i - 1) : table[j].Month_Year # m

\* MustPrecede, were nulls sorted first
MustPrecede_NullsFirst(table, a, b) ==
  LET ka == parse_month_year(a)
      kb == parse_month_year(b)
  IN \/ ~ka.null /\ ~kb.null /\ ka.key < kb.key
     \/ ka.null /\ ~kb.null
     \/ ka.null /\ kb.null /\ FirstIndex(table, a) < FirstIndex(table, b)

\* sort_values("Month_Order") must put a before b: an earlier date first, a
\* date before a null, and nulls in the order they had
MustPrecede(table, a, b) ==
  LET ka == parse_month_year(a)
      kb == parse_month_year(b)
  IN \/ ~ka.null /\ ~kb.null /\ ka.key < kb.key
     \/ ~ka.null /\ kb.null
     \/ ka.null /\ kb.null /\ FirstIndex(table, a) < FirstIndex(table, b)

\* the orders of the distinct labels that sort_values (quicksort, which
\* need not keep the order of equal keys) followed by unique() can give
MonthOrders(table) ==
  LET labels == {table[i].Month_Year : i \in 1..Len(table)}
      n == Cardinality(labels)
  IN {o \in [1..n -> labels] :
        /\ \A i, j \in 1..n : i # j => o[i] # o[j]
        /\ \A i, j \in 1..n : i < j => ~MustPrecede(table, o[j], o[i])}

RowsOfMonth(table, m) == SelectSeq(table, LAMBDA r : r.Month_Year = m)

\* the sorted table whose labels appear in the given order
SortedTable(table, order) ==
  Concat([i \in 1..Len(order) |-> RowsOfMonth(table, order[i])])

RECURSIVE SumCompletion(_)
\* df["Completion"].sum()
SumCompletion(table) ==
  IF table = <<>> THEN 0
  ELSE Head(table).Completion.n + SumCompletion(Tail(table))

\* df.groupby("Person")["Completion"].sum()
GroupSum(table) ==
  [p \in {table[i].Person : i \in 1..Len(table)} |->
     SumCompletion(SelectSeq(table, LAMBDA r : r.Person = p))]

\* Series.idxmax(): the first label, in the sorted order of the groups,
\* whose value is the maximum; ValueError on an empty series
IdxMax(sums) ==
  IF DOMAIN sums = {} THEN ValueError
  ELSE CHOOSE p \in DOMAIN sums :
         /\ \A q \in DOMAIN sums : sums[q] <= sums[p]
         /\ \A q \in DOMAIN sums : sums[q] = sums[p] => (q = p \/ StrLess(p, q))

NA == <<"N", "/", "A">>

\* TopPerformer, were the emptiness guard left out
TopPerformer_NoGuard(table) == IdxMax(GroupSum(table))

\* groupby("Person")["Completion"].sum().idxmax() if not df.empty else "N/A"
TopPerformer(table) ==
  IF table # <<>> THEN IdxMax(GroupSum(table)) ELSE NA

\* if all_data: concat, Month_Order, sort_values, month_list; else the
\* "no valid completion data" warning
Combine ==
  /\ pc = "combine"
  /\ IF all_data # <<>>
     THEN /\ \E order \in MonthOrders(Concat(all_data)) :
               /\ month_list' = order
               /\ combined_df' = SortedTable(Concat(all_data), order)
          /\ ti' = 1
          /\ pc' = "month_tab"
          /\ UNCHANGED warnings
     ELSE /\ warnings' = warnings \cup {Warn("no_data", 0, 0, "")}
          /\ pc' = "no_data"
          /\ UNCHANGED <<combined_df, month_list, ti>>
  /\ UNCHANGED <<uploaded_files, fi, pi, ri, df, portal_df, current_person,
                 all_persons_detected, all_persons_list, all_records, all_data,
                 tab_metrics, selected_persons, monthly_data, yearly>>

\* one month tab: the metrics of df_month, then the person filter the user
\* leaves in the multiselect, and the filtered table kept for the year
MonthTab ==
  /\ pc = "month_tab"
  /\ LET month_year == month_list[ti]
         df_month == RowsOfMonth(combined_df, month_year)
     IN /\ tab_metrics' =
             Append(tab_metrics,
                    [month_year |-> month_year,
                     df_month |-> df_month,
                     total_completion |-> SumCompletion(df_month),
                     active_persons |-> Cardinality(DOMAIN GroupSum(df_month)),
                     top_performer |-> TopPerformer(df_month)])
        /\ \E chosen \in SUBSET Range(all_persons_list) :
             /\ selected_persons' = chosen
             /\ monthly_data' =
                  Append(monthly_data,
                         [month_year |-> month_year,
                          df_filtered |->
                            SelectSeq(df_month, LAMBDA r : r.Person \in chosen)])
  /\ IF ti < Len(month_list)
     THEN /\ ti' = ti + 1
          /\ UNCHANGED pc
     ELSE /\ pc' = "yearly"
          /\ UNCHANGED ti
  /\ UNCHANGED <<ingest_but_pc, combined_df, month_list, yearly>>

\* the yearly comparison tab
Yearly ==
  /\ pc = "yearly"
  /\ LET combined_filtered ==
           Concat([i \in 1..Len(monthly_data) |-> monthly_data[i].df_filtered])
     IN yearly' = [shown |-> TRUE,
                   table |-> combined_filtered,
                   top_performer_year |-> TopPerformer(combined_filtered)]
  /\ pc' = "done"
  /\ UNCHANGED <<ingest_but_pc, combined_df, month_list, ti, tab_metrics,
                 selected_persons, monthly_data>>

Next ==
  \/ ScanRead \/ ScanPortal \/ Freeze
  \/ ProcRead \/ ProcPortal \/ ProcRow \/ ProcFileEnd
  \/ Combine \/ MonthTab \/ Yearly

Spec == Init /\ [][Next]_vars

(***************************************************************************)
(* Properties                                                              *)
(***************************************************************************)
Label(row) == Strip(PyStr(row[1]))

IsPersonRow(row) == Label(row) \in Range(all_persons_list)

\* the row being scanned appends a record in this step
EmitsNow == pc = "proc_row" /\ Len(all_records') = Len(all_records) + 1

AfterDiscovery ==
  pc \in {"proc_read", "proc_portal", "proc_row", "proc_file_end",
          "combine", "month_tab", "yearly", "done", "no_data"}

AllTriples ==
  Range(all_records) \cup Range(Concat(all_data)) \cup Range(combined_df)

C2_NoiseRowKeepsCursor ==
  [][ (/\ pc = "proc_row"
       /\ \/ ~NotNa(portal_df[ri][1])
          \/ Label(portal_df[ri]) = <<>>
          \/ IsStructuralNoise(Label(portal_df[ri])))
      => current_person' = current_person ]_vars

\* C3: the person of every record is in the vocabulary Step 1 built.
C3_PersonInVocabulary ==
  \A r \in AllTriples :
    r.Person \in Range(all_persons_list) /\ r.Person \in all_persons_detected

\* a record extracted from a file Step 1 could not read, for a person the
\* other file of the batch named
C3_Witness ==
  /\ Len(uploaded_files) = 2
  /\ Warn("scan_error", 1, 0, "read") \in warnings
  /\ pc = "proc_file_end"
  /\ fi = 1
  /\ all_records # <<>>

\* the labels of the rows of a sheet's section that are not blank in both
\* columns
SectionLabels(sheet, portal) ==
  {Strip(PyStr(sheet.rows[i][portal.col_task + 1])) :
     i \in {k \in 1..Len(sheet.rows) :
              \/ NotNa(sheet.rows[k][portal.col_task + 1])
              \/ NotNa(sheet.rows[k][portal.col_value + 1])}}

SheetLabels(sheet) ==
  UNION {SectionLabels(sheet, portals[q]) :
           q \in {q \in 1..Len(portals) : portals[q].col_value < sheet.ncols}}

\* the person candidates of every section of every file Step 1 could read
ExpectedVocabulary ==
  {v \in UNION {SheetLabels(uploaded_files[f].df) :
                  f \in {g \in 1..Len(uploaded_files) :
                           Warn("scan_error", g, 0, "read") \notin warnings}} :
     IsPersonCandidate(v)}

C5_CompletionNonNegative ==
  \A i \in 1..Len(combined_df) :
    combined_df[i].Completion.t = "int" /\ combined_df[i].Completion.n >= 0

NonNumericText(cell) ==
  cell.t = "str" /\ \E i \in 1..Len(cell.s) : ~IsDigitChar(cell.s[i]) /\ cell.s[i] # "-"

NegativeCell(cell) ==
  \/ cell.t = "int" /\ cell.n < 0
  \/ cell.t = "str" /\ Len(cell.s) > 0 /\ cell.s[1] = "-"

\* C5 amended: every Completion of a file's table and of the combined table
\* is a number, never null, never a string; a number is kept as it is, a
\* present non-numeric cell gives 0; a value is negative only when its cell
\* held a negative number.
C5_CompletionNumeric ==
  [][ /\ (pc = "proc_file_end" /\ all_records # <<>>) =>
           /\ Len(all_data') = Len(all_data) + 1
           /\ LET t == all_data'[Len(all_data')]
              IN /\ Len(t) = Len(all_records)
                 /\ \A i \in 1..Len(t) :
                      /\ t[i].Completion.t = "int"
                      /\ all_records[i].Completion.t = "int" =>
                           t[i].Completion.n = all_records[i].Completion.n
                      /\ NonNumericText(all_records[i].Completion) =>
                           t[i].Completion.n = 0
                      /\ t[i].Completion.n < 0 => NegativeCell(all_records[i].Completion)
      /\ pc = "combine" =>
           /\ Len(combined_df') = Len(Concat(all_data))
           /\ \A i \in 1..Len(combined_df') :
                /\ combined_df'[i] \in Range(Concat(all_data))
                /\ combined_df'[i].Completion.t = "int"
    ]_vars

\* the combined table holds 0 for a value cell that held "abc"
C5_Witness ==
  /\ Len(uploaded_files) = 1
  /\ Len(uploaded_files[1].df.rows) = 3
  /\ uploaded_files[1].df.rows[3][2] = StrCell(<<"a", "b", "c">>)
  /\ Len(combined_df) = 1
  /\ combined_df[1].Completion = IntCell(0)

\* C6: a file whose read failed in either pass contributes no record, every
\* other file is still read in both passes, and the run ends in the display
\* or in the "no data" state.
C6_BadSourceContributesNothing ==
  /\ (pc = "proc_file_end" /\ Warn("scan_error", fi, 0, "read") \in warnings)
       => all_records = <<>>
  /\ pc \in {"combine", "month_tab", "yearly", "done", "no_data"} =>
       \A f \in 1..Len(uploaded_files) :
         /\ Warn("scan_error", f, 0, "read") \in warnings
            \/ PersonsOf(PortalDf(uploaded_files[f].df, portals[1])) \subseteq all_persons_detected
         /\ Warn("read_error", f, 0, "read") \in warnings
            \/ Warn("no_valid_data", f, 0, "") \in warnings
            \/ all_data # <<>>
  /\ pc \notin {"done", "no_data"} => ENABLED Next

\* C7: the top performer of an empty table is "N/A" and nothing is raised;
\* of a non-empty table it is a person whose summed completion is maximal.
IsTopPerformerOf(top, table) ==
  IF table = <<>> THEN top = NA
  ELSE /\ top \in {table[i].Person : i \in 1..Len(table)}
       /\ \A q \in {table[i].Person : i \in 1..Len(table)} :
            SumCompletion(SelectSeq(table, LAMBDA r : r.Person = q))
              <= SumCompletion(SelectSeq(table, LAMBDA r : r.Person = top))

C7_TopPerformerSentinel ==
  /\ \A i \in 1..Len(tab_metrics) :
       IsTopPerformerOf(tab_metrics[i].top_performer, tab_metrics[i].df_month)
  /\ yearly.shown => IsTopPerformerOf(yearly.top_performer_year, yearly.table)

\* the yearly comparison after every person was deselected
C7_Witness ==
  /\ yearly.shown
  /\ combined_df # <<>>
  /\ yearly.table = <<>>
  /\ yearly.top_performer_year = NA

\* C8: the task of every record is a known task, and no known task is
\* structural noise.
KnownTasksNotNoise == \A t \in known_tasks : ~IsStructuralNoise(t)

C8_TaskNeverNoise ==
  /\ \A r \in AllTriples : r.Task \in known_tasks /\ ~IsStructuralNoise(r.Task)
  /\ KnownTasksNotNoise

\* a record from a section that held a noise row with a present value under
\* a non-null cursor
C8_Witness ==
  /\ Len(all_records) = 1
  /\ Len(portal_df) = 3
  /\ IsPersonRow(portal_df[1])
  /\ IsStructuralNoise(Label(portal_df[2]))
  /\ ~IsSkipped(Label(portal_df[2]))
  /\ NotNa(portal_df[2][2])

\* C9 as stated: under a non-null cursor a known-task row appends a record
\* exactly when its value is present and numeric-coercible.
C9_EmitsIffPresentNumeric ==
  [][ (pc = "proc_row" /\ Label(portal_df[ri]) \in known_tasks /\ Truthy(current_person))
      => (Len(all_records') = Len(all_records) + 1
            <=> (NotNa(portal_df[ri][2]) /\ ToNumeric(portal_df[ri][2]).t = "int")) ]_vars

\* C9 amended: under a non-null cursor a known-task row appends a record
\* exactly when its value is present, numeric-coercible or not; a person row
\* followed by a task row with a missing value appends nothing.
C9_EmitsIffPresent ==
  [][ (pc = "proc_row" /\ Label(portal_df[ri]) \in known_tasks /\ Truthy(current_person))
      => /\ Len(all_records') = Len(all_records) + 1 <=> NotNa(portal_df[ri][2])
         /\ ~NotNa(portal_df[ri][2]) => all_records' = all_records ]_vars

\* a record appended for a present value that is not numeric-coercible
C9_Witness ==
  /\ Len(all_records) = 1
  /\ all_records[1].Completion = StrCell(<<"a", "b", "c">>)
  /\ all_records[1].Person = sAlice

HasLabel(m) == \E i \in 1..Len(combined_df) : combined_df[i].Month_Year = m

\* C10: in month_list the labels that parse are in ascending order of their
\* dates, the labels that do not parse come after all that do, and every
\* label of the table is in the list, whatever the order of upload.
C10_MonthOrder ==
  pc \in {"month_tab", "yearly", "done"} =>
    /\ LET date == [i \in 1..Len(month_list) |-> parse_month_year(month_list[i])]
       IN \A i, j \in 1..Len(month_list) :
            i < j =>
              /\ date[i].null => date[j].null
              /\ (~date[i].null /\ ~date[j].null) => date[i].key <= date[j].key
              /\ month_list[i] # month_list[j]
    /\ \A t \in 1..Len(all_data) : \E i \in 1..Len(month_list) :
         month_list[i] = all_data[t][1].Month_Year
    /\ \A i \in 1..Len(month_list) : HasLabel(month_list[i])
    /\ Len(combined_df) = Len(Concat(all_data))

\* "InvalidName" uploaded first, "March 2024" second, listed in the other order
C10_Witness ==
  /\ Len(uploaded_files) = 2
  /\ uploaded_files[1].name = nameInvalid
  /\ uploaded_files[2].name = nameMarch2024
  /\ month_list = <<SplitExtStem(nameMarch2024), SplitExtStem(nameInvalid)>>

=============================================================================
